---- MODULE Spec2Model ----
(***************************************************************************)
(* Model of nova/api/openstack/compute/plugins/v3/extended_volumes.py:     *)
(* the ExtendedVolumesController (show / detail enrichment, attach and     *)
(* detach actions) in front of the compute and volume services.            *)
(*                                                                         *)
(* One request is served at a time.  A handler is cut at its backend       *)
(* calls: every action runs the handler's code up to and including one     *)
(* backend call, whose answer (a return value or a raised exception) is    *)
(* chosen by the backend.  `calls` is the log of the backend calls of the  *)
(* request being served, `outcome` is what the handler returned or raised. *)
(***************************************************************************)
EXTENDS Integers, Sequences, FiniteSets, TLC

\* Longest block-device-mapping list the compute service returns.
MaxBdms == 2
\* Longest server list a detail response carries.
MaxServers == 2

(***************************************************************************)
(* Python values                                                           *)
(***************************************************************************)
None == "None"
NoExc == "no exception"
EmptyDict == [k \in {} |-> None]

Truthy(v) == v \notin {None, ""}

\* nova.exception classes the handlers name; no one is a subclass of another.
InstanceNotFound == "InstanceNotFound"
VolumeNotFound == "VolumeNotFound"
InstanceInvalidState == "InstanceInvalidState"
InvalidVolume == "InvalidVolume"
InvalidDevicePath == "InvalidDevicePath"
VolumeUnattached == "VolumeUnattached"

\* webob.exc classes and the success status of an action.
HTTPBadRequest == "HTTPBadRequest"
HTTPNotFound == "HTTPNotFound"
HTTPConflict == "HTTPConflict"
HTTPForbidden == "HTTPForbidden"
Accepted == "202"
\* A show / detail extension returns nothing; the response goes on.
Returned == "returned"

KeyError == "KeyError"
TypeError == "TypeError"

ALIAS == "os-extended-volumes"
volumes_attached_key == "os-extended-volumes:volumes_attached"
ExtendedVolumesServerTemplate == "ExtendedVolumesServerTemplate"
ExtendedVolumesServersTemplate == "ExtendedVolumesServersTemplate"

(***************************************************************************)
(* Inputs                                                                  *)
(***************************************************************************)
V1 == "11111111-1111-1111-1111-111111111111"
V2 == "22222222-2222-2222-2222-222222222222"
NotUuid == "not-a-uuid"
DevVdb == "/dev/vdb"

ServerIds == 1..MaxServers
RequestVolumeIds == {V1, V2, NotUuid}
BdmVolumeIds == {None, V1, V2}

\* Policy rules; a context is the set of rules the policy grants the caller.
RuleExtend == "v3:os-extended-volumes"
RuleAttach == "v3:os-extended-volumes:attach"
RuleDetach == "v3:os-extended-volumes:detach"
Contexts == SUBSET {RuleExtend, RuleAttach, RuleDetach}

\* A request body {entity: value}: value is a dict (items) or something else.
DictItems ==
    {EmptyDict, [device |-> DevVdb]}
        \cup {[volume_id |-> v] : v \in RequestVolumeIds}
        \cup {[volume_id |-> v, device |-> DevVdb] : v \in RequestVolumeIds}

Bodies(entity) ==
    {[entity |-> "other", is_dict |-> TRUE, items |-> EmptyDict],
     [entity |-> entity, is_dict |-> FALSE, items |-> EmptyDict]}
        \cup {[entity |-> entity, is_dict |-> TRUE, items |-> d] : d \in DictItems}

NoBody == [entity |-> "other", is_dict |-> FALSE, items |-> EmptyDict]

Bdms == {[volume_id |-> v] : v \in BdmVolumeIds}
BdmLists == UNION {[1..n -> Bdms] : n \in 0..MaxBdms}

\* What a backend call can do: return, or raise one of the named failures.
BackendFailures ==
    {InstanceNotFound, VolumeNotFound, InstanceInvalidState,
     InvalidVolume, InvalidDevicePath, VolumeUnattached}
BackendRaises == {NoExc} \cup BackendFailures

Server(id) == [id |-> id]
NoResp == [obj |-> EmptyDict, xml |-> None]

VARIABLES
    req,        \* the request being served
    pc,         \* position of the handler
    volume_id, device, instance, volume, bdms, i,   \* the handler's locals
    calls,      \* backend calls of this request, in order
    outcome,    \* what the handler returned or raised
    resp_obj    \* the response object of show / detail

vars == <<req, pc, volume_id, device, instance, volume, bdms, i,
          calls, outcome, resp_obj>>

NoRequest ==
    [action |-> "none", context |-> {}, id |-> 0, body |-> NoBody,
     resp_obj |-> NoResp]

Init ==
    /\ req = NoRequest
    /\ pc = "idle"
    /\ volume_id = None
    /\ device = None
    /\ instance = None
    /\ volume = None
    /\ bdms = <<>>
    /\ i = 0
    /\ calls = <<>>
    /\ outcome = None
    /\ resp_obj = NoResp

(***************************************************************************)
(* Collaborators this file imports                                         *)
(***************************************************************************)
\* extensions.soft_extension_authorizer: the authorizer it builds answers
\* whether the policy grants the rule; it does not raise on denial.
soft_extension_authorizer(api_name, extension_name) ==
    [context \in Contexts |-> extension_name \in context]

\* Variant: the enrichment check bound to the attach rule.
authorize_wrong_rule == soft_extension_authorizer("compute", RuleAttach)

authorize == soft_extension_authorizer("compute", RuleExtend)
authorize_attach == soft_extension_authorizer("compute", RuleAttach)
authorize_detach == soft_extension_authorizer("compute", RuleDetach)

\* wsgi.Controller.is_valid_body: the entity is in the body and is a dict.
is_valid_body(body, entity_name) ==
    /\ body.entity = entity_name
    /\ body.is_dict

\* uuidutils.is_uuid_like
is_uuid_like(val) == val \in {V1, V2}

\* common.raise_http_conflict_for_instance_invalid_state: always raises.
raise_http_conflict_for_instance_invalid_state(state_error, action) ==
    HTTPConflict

\* body[entity_name]['volume_id'] as Python evaluates it.
body_volume_id(body, entity_name) ==
    IF body.entity # entity_name THEN [raised |-> KeyError, value |-> None]
    ELSE IF ~body.is_dict THEN [raised |-> TypeError, value |-> None]
    ELSE IF "volume_id" \notin DOMAIN body.items
        THEN [raised |-> KeyError, value |-> None]
    ELSE [raised |-> NoExc, value |-> body.items.volume_id]

\* dict.get(key)
dict_get(d, key) == IF key \in DOMAIN d THEN d[key] ELSE None

Call(fn, args, raised, ret) ==
    [fn |-> fn, args |-> args, raised |-> raised, ret |-> ret]

(***************************************************************************)
(* Read enrichment                                                         *)
(***************************************************************************)
\* Variant: the comprehension without its condition.
volume_ids_unfiltered(bs) == [k \in 1..Len(bs) |-> bs[k].volume_id]

\* [bdm['volume_id'] for bdm in bdms if bdm['volume_id']]
RECURSIVE volume_ids(_)
volume_ids(bs) ==
    IF bs = <<>> THEN <<>>
    ELSE IF Truthy(Head(bs).volume_id)
        THEN <<Head(bs).volume_id>> \o volume_ids(Tail(bs))
        ELSE volume_ids(Tail(bs))

\* _extend_server, given what get_instance_bdms returned.
extend_server(server, bs) ==
    LET ids == volume_ids(bs)
        val == [k \in 1..Len(ids) |-> [id |-> ids[k]]]
    IN [x \in DOMAIN server \cup {volumes_attached_key} |->
            IF x = volumes_attached_key THEN val ELSE server[x]]

(***************************************************************************)
(* attach                                                                  *)
(***************************************************************************)
\* Variant: the test of the format inverted.
validate_volume_id_inverted(vid) ==
    IF is_uuid_like(vid) THEN HTTPBadRequest ELSE NoExc

validate_volume_id(vid) ==
    IF ~is_uuid_like(vid) THEN HTTPBadRequest ELSE NoExc

\* Variant: no except clause for InvalidDevicePath.
attach_except_no_device_path(e) ==
    IF e \in {InstanceNotFound, VolumeNotFound} THEN HTTPNotFound
    ELSE IF e = InstanceInvalidState
        THEN raise_http_conflict_for_instance_invalid_state(e, "attach_volume")
    ELSE IF e = InvalidVolume THEN HTTPBadRequest
    ELSE e

\* The except clauses of attach's try block: what leaves the handler when
\* the block raises e.
attach_except(e) ==
    IF e \in {InstanceNotFound, VolumeNotFound} THEN HTTPNotFound
    ELSE IF e = InstanceInvalidState
        THEN raise_http_conflict_for_instance_invalid_state(e, "attach_volume")
    ELSE IF e = InvalidVolume THEN HTTPBadRequest
    ELSE IF e = InvalidDevicePath THEN HTTPBadRequest
    ELSE e

Raise(e) == pc' = "done" /\ outcome' = e

\* Lines 84-102: up to the try block.
attach(context, id, body) ==
    /\ pc = "idle"
    /\ req' = [action |-> "attach", context |-> context, id |-> id,
               body |-> body, resp_obj |-> NoResp]
    /\ LET authorized == authorize_attach[context]    \* result not used
           sub == body_volume_id(body, "attach")
       IN IF ~is_valid_body(body, "attach")
            THEN Raise(HTTPBadRequest) /\ UNCHANGED <<volume_id, device>>
          ELSE IF sub.raised # NoExc
            THEN Raise(sub.raised) /\ UNCHANGED <<volume_id, device>>
          ELSE /\ volume_id' = sub.value
               /\ device' = dict_get(body.items, "device")
               /\ IF validate_volume_id(sub.value) # NoExc
                    THEN Raise(validate_volume_id(sub.value))
                    ELSE pc' = "attach_get" /\ UNCHANGED outcome
    /\ UNCHANGED <<instance, volume, bdms, i, calls, resp_obj>>

\* Line 105
attach_compute_get ==
    /\ pc = "attach_get"
    /\ \E r \in BackendRaises :
        /\ calls' = Append(calls, Call("compute_api.get", <<req.id>>, r,
                                       IF r = NoExc THEN req.id ELSE None))
        /\ IF r = NoExc
             THEN instance' = req.id /\ pc' = "attach_volume" /\ UNCHANGED outcome
             ELSE Raise(attach_except(r)) /\ UNCHANGED instance
    /\ UNCHANGED <<req, volume_id, device, volume, bdms, i, resp_obj>>

\* Lines 106-107
attach_attach_volume ==
    /\ pc = "attach_volume"
    /\ \E r \in BackendRaises :
        /\ calls' = Append(calls, Call("compute_api.attach_volume",
                                       <<instance, volume_id, device>>, r, None))
        /\ IF r = NoExc THEN Raise(Accepted) ELSE Raise(attach_except(r))
    /\ UNCHANGED <<req, volume_id, device, instance, volume, bdms, i, resp_obj>>

(***************************************************************************)
(* detach                                                                  *)
(***************************************************************************)
\* Variant: the comparison inverted.
skip_bdm_inverted(bdm, vid) == bdm.volume_id = vid

\* Line 150: the mapping is skipped.
skip_bdm(bdm, vid) == bdm.volume_id # vid

\* Variant: no except clause for InvalidVolume.
detach_volume_try_no_invalid_volume(r) ==
    IF r = NoExc THEN [ctl |-> "break", exc |-> NoExc]
    ELSE IF r = VolumeUnattached THEN [ctl |-> "pass", exc |-> NoExc]
    ELSE IF r = InstanceInvalidState
        THEN [ctl |-> "raise",
              exc |-> raise_http_conflict_for_instance_invalid_state(
                          r, "detach_volume")]
    ELSE [ctl |-> "raise", exc |-> r]

\* Variant: VolumeUnattached answered with NotFound at once.
detach_volume_try_unattached_raises(r) ==
    IF r = NoExc THEN [ctl |-> "break", exc |-> NoExc]
    ELSE IF r = VolumeUnattached THEN [ctl |-> "raise", exc |-> HTTPNotFound]
    ELSE IF r = InvalidVolume THEN [ctl |-> "raise", exc |-> HTTPBadRequest]
    ELSE IF r = InstanceInvalidState
        THEN [ctl |-> "raise",
              exc |-> raise_http_conflict_for_instance_invalid_state(
                          r, "detach_volume")]
    ELSE [ctl |-> "raise", exc |-> r]

\* Variant: no break after a detach_volume call that returned.
detach_volume_try_no_break(r) ==
    IF r \in {NoExc, VolumeUnattached} THEN [ctl |-> "pass", exc |-> NoExc]
    ELSE IF r = InvalidVolume THEN [ctl |-> "raise", exc |-> HTTPBadRequest]
    ELSE IF r = InstanceInvalidState
        THEN [ctl |-> "raise",
              exc |-> raise_http_conflict_for_instance_invalid_state(
                          r, "detach_volume")]
    ELSE [ctl |-> "raise", exc |-> r]

\* Lines 152-163: what the loop body does when detach_volume answers r.
detach_volume_try(r) ==
    IF r = NoExc THEN [ctl |-> "break", exc |-> NoExc]
    ELSE IF r = VolumeUnattached THEN [ctl |-> "pass", exc |-> NoExc]
    ELSE IF r = InvalidVolume THEN [ctl |-> "raise", exc |-> HTTPBadRequest]
    ELSE IF r = InstanceInvalidState
        THEN [ctl |-> "raise",
              exc |-> raise_http_conflict_for_instance_invalid_state(
                          r, "detach_volume")]
    ELSE [ctl |-> "raise", exc |-> r]

\* Lines 120-130
detach(context, id, body) ==
    /\ pc = "idle"
    /\ req' = [action |-> "detach", context |-> context, id |-> id,
               body |-> body, resp_obj |-> NoResp]
    /\ LET authorized == authorize_detach[context]    \* result not used
           sub == body_volume_id(body, "detach")
       IN IF sub.raised # NoExc
            THEN Raise(sub.raised) /\ UNCHANGED volume_id
            ELSE volume_id' = sub.value /\ pc' = "detach_get" /\ UNCHANGED outcome
    /\ UNCHANGED <<device, instance, volume, bdms, i, calls, resp_obj>>

\* Lines 131-134
detach_compute_get ==
    /\ pc = "detach_get"
    /\ \E r \in BackendRaises :
        /\ calls' = Append(calls, Call("compute_api.get", <<req.id>>, r,
                                       IF r = NoExc THEN req.id ELSE None))
        /\ IF r = NoExc
             THEN instance' = req.id /\ pc' = "detach_volume_get"
                  /\ UNCHANGED outcome
             ELSE /\ Raise(IF r = InstanceNotFound THEN HTTPNotFound ELSE r)
                  /\ UNCHANGED instance
    /\ UNCHANGED <<req, volume_id, device, volume, bdms, i, resp_obj>>

\* Lines 136-139
detach_volume_get ==
    /\ pc = "detach_volume_get"
    /\ \E r \in BackendRaises :
        /\ calls' = Append(calls, Call("volume_api.get", <<volume_id>>, r,
                                       IF r = NoExc THEN volume_id ELSE None))
        /\ IF r = NoExc
             THEN volume' = volume_id /\ pc' = "detach_bdms" /\ UNCHANGED outcome
             ELSE /\ Raise(IF r = VolumeNotFound THEN HTTPNotFound ELSE r)
                  /\ UNCHANGED volume
    /\ UNCHANGED <<req, volume_id, device, instance, bdms, i, resp_obj>>

\* Lines 141-147
detach_get_instance_bdms ==
    /\ pc = "detach_bdms"
    /\ \/ \E r \in BackendFailures :
            /\ calls' = Append(calls, Call("compute_api.get_instance_bdms",
                                           <<instance>>, r, None))
            /\ Raise(r)
            /\ UNCHANGED <<bdms, i>>
       \/ \E bs \in BdmLists :
            /\ calls' = Append(calls, Call("compute_api.get_instance_bdms",
                                           <<instance>>, NoExc, bs))
            /\ bdms' = bs
            /\ IF bs = <<>>
                 THEN Raise(HTTPNotFound) /\ UNCHANGED i
                 ELSE pc' = "detach_loop" /\ i' = 1 /\ UNCHANGED outcome
    /\ UNCHANGED <<req, volume_id, device, instance, volume, resp_obj>>

\* Lines 149-151: bdms[i] is another volume's mapping.
detach_loop_continue ==
    /\ pc = "detach_loop"
    /\ i <= Len(bdms)
    /\ skip_bdm(bdms[i], volume_id)
    /\ i' = i + 1
    /\ UNCHANGED <<req, pc, volume_id, device, instance, volume, bdms,
                   calls, outcome, resp_obj>>

\* Lines 152-163: bdms[i] is a mapping of the volume.
detach_loop_detach_volume ==
    /\ pc = "detach_loop"
    /\ i <= Len(bdms)
    /\ ~skip_bdm(bdms[i], volume_id)
    /\ \E r \in BackendRaises :
        /\ calls' = Append(calls, Call("compute_api.detach_volume",
                                       <<instance, volume>>, r, None))
        /\ LET t == detach_volume_try(r)
           IN  CASE t.ctl = "break" -> Raise(Accepted) /\ UNCHANGED i
                 [] t.ctl = "pass" -> i' = i + 1 /\ UNCHANGED <<pc, outcome>>
                 [] OTHER -> Raise(t.exc) /\ UNCHANGED i
    /\ UNCHANGED <<req, volume_id, device, instance, volume, bdms, resp_obj>>

\* Lines 164-168: the loop ran out without a break.
detach_loop_else ==
    /\ pc = "detach_loop"
    /\ i > Len(bdms)
    /\ Raise(HTTPNotFound)
    /\ UNCHANGED <<req, volume_id, device, instance, volume, bdms, i,
                   calls, resp_obj>>

(***************************************************************************)
(* show / detail                                                           *)
(***************************************************************************)
\* Lines 52-61, with _extend_server (45-49).
show(context, id) ==
    /\ pc = "idle"
    /\ LET resp_in == [obj |-> [server |-> Server(id)], xml |-> None]
       IN
        /\ req' = [action |-> "show", context |-> context, id |-> id,
                   body |-> NoBody, resp_obj |-> resp_in]
        /\ IF authorize[context]
             THEN \/ \E r \in BackendFailures :
                        /\ calls' = Append(calls,
                              Call("compute_api.get_instance_bdms", <<id>>, r, None))
                        /\ resp_obj' = [resp_in EXCEPT
                                          !.xml = ExtendedVolumesServerTemplate]
                        /\ Raise(r)
                  \/ \E bs \in BdmLists :
                        /\ calls' = Append(calls,
                              Call("compute_api.get_instance_bdms", <<id>>, NoExc, bs))
                        /\ resp_obj' =
                             [obj |-> [server |-> extend_server(Server(id), bs)],
                              xml |-> ExtendedVolumesServerTemplate]
                        /\ Raise(Returned)
             ELSE /\ resp_obj' = resp_in
                  /\ Raise(Returned)
                  /\ UNCHANGED calls
    /\ UNCHANGED <<volume_id, device, instance, volume, bdms, i>>

\* Lines 64-69: up to the loop over the servers.
detail(context, n) ==
    /\ pc = "idle"
    /\ LET resp_in == [obj |-> [servers |-> [k \in 1..n |-> Server(k)]],
                       xml |-> None]
       IN
        /\ req' = [action |-> "detail", context |-> context, id |-> 0,
                   body |-> NoBody, resp_obj |-> resp_in]
        /\ IF authorize[context]
             THEN /\ resp_obj' = [resp_in EXCEPT
                                    !.xml = ExtendedVolumesServersTemplate]
                  /\ pc' = "detail_loop"
                  /\ i' = 1
                  /\ UNCHANGED outcome
             ELSE /\ resp_obj' = resp_in
                  /\ Raise(Returned)
                  /\ UNCHANGED i
    /\ UNCHANGED <<volume_id, device, instance, volume, bdms, calls>>

\* Lines 70-74: one server of the list.
detail_loop ==
    /\ pc = "detail_loop"
    /\ i <= Len(resp_obj.obj.servers)
    /\ LET server == resp_obj.obj.servers[i]
       IN \/ \E r \in BackendFailures :
                /\ calls' = Append(calls,
                      Call("compute_api.get_instance_bdms", <<server.id>>, r, None))
                /\ Raise(r)
                /\ UNCHANGED <<resp_obj, i>>
          \/ \E bs \in BdmLists :
                /\ calls' = Append(calls,
                      Call("compute_api.get_instance_bdms", <<server.id>>, NoExc, bs))
                /\ resp_obj' = [resp_obj EXCEPT
                                  !.obj.servers[i] = extend_server(server, bs)]
                /\ i' = i + 1
                /\ UNCHANGED <<pc, outcome>>
    /\ UNCHANGED <<req, volume_id, device, instance, volume, bdms>>

\* The loop over the servers is over.
detail_return ==
    /\ pc = "detail_loop"
    /\ i > Len(resp_obj.obj.servers)
    /\ Raise(Returned)
    /\ UNCHANGED <<req, volume_id, device, instance, volume, bdms, i,
                   calls, resp_obj>>

(***************************************************************************)
(* The framework                                                           *)
(***************************************************************************)
\* The response is sent; nothing of the request is kept.
respond ==
    /\ pc = "done"
    /\ req' = NoRequest
    /\ pc' = "idle"
    /\ volume_id' = None
    /\ device' = None
    /\ instance' = None
    /\ volume' = None
    /\ bdms' = <<>>
    /\ i' = 0
    /\ calls' = <<>>
    /\ outcome' = None
    /\ resp_obj' = NoResp

Next ==
    \/ \E context \in Contexts, id \in ServerIds, body \in Bodies("detach") :
            detach(context, id, body)
    \/ detach_compute_get
    \/ detach_volume_get
    \/ detach_get_instance_bdms
    \/ detach_loop_continue
    \/ detach_loop_detach_volume
    \/ detach_loop_else
    \/ \E context \in Contexts, id \in ServerIds, body \in Bodies("attach") :
            attach(context, id, body)
    \/ attach_compute_get
    \/ attach_attach_volume
    \/ \E context \in Contexts, id \in ServerIds : show(context, id)
    \/ \E context \in Contexts, n \in 0..MaxServers : detail(context, n)
    \/ detail_loop
    \/ detail_return
    \/ respond

Spec == Init /\ [][Next]_vars

(***************************************************************************)
(* Properties                                                              *)
(***************************************************************************)
FacadeOutcomes ==
    {Accepted, HTTPBadRequest, HTTPNotFound, HTTPConflict, HTTPForbidden}

IsDetachVolume(c) == c.fn = "compute_api.detach_volume"
DetachCalls == SelectSeq(calls, IsDetachVolume)

\* Number of mappings among bs[1..upto] that carry the volume id vid.
Matches(bs, vid, upto) ==
    Cardinality({k \in 1..upto : k <= Len(bs) /\ bs[k].volume_id = vid})

\* The detach request got the mappings of the instance.
ScanStarted ==
    /\ req.action = "detach"
    /\ \E k \in 1..Len(calls) :
        calls[k].fn = "compute_api.get_instance_bdms" /\ calls[k].raised = NoExc

FailedCalls == {k \in 1..Len(calls) : calls[k].raised # NoExc}

Malformed(body, entity_name) ==
    \/ body.entity # entity_name
    \/ ~body.is_dict
    \/ "volume_id" \notin DOMAIN body.items

\* C1: an attach or detach request of a caller who is denied the attach
\* resp. detach rule makes no backend call and ends with Forbidden.
C1_FailClosed ==
    /\ (req.action = "attach" /\ RuleAttach \notin req.context)
          => (calls = <<>> /\ (pc = "done" => outcome = HTTPForbidden))
    /\ (req.action = "detach" /\ RuleDetach \notin req.context)
          => (calls = <<>> /\ (pc = "done" => outcome = HTTPForbidden))

\* C2 as stated: an attach or detach request in which any backend call
\* raised any of the named failures ends with a facade outcome.
C2_AllTranslated ==
    (pc = "done" /\ req.action \in {"attach", "detach"} /\ FailedCalls # {})
        => outcome \in FacadeOutcomes

\* The failures the handler of `action` catches around the call `fn`.
HandledFailures(action, fn) ==
    IF action = "attach"
        THEN {InstanceNotFound, VolumeNotFound, InstanceInvalidState,
              InvalidVolume, InvalidDevicePath}
    ELSE IF fn = "compute_api.get" THEN {InstanceNotFound}
    ELSE IF fn = "volume_api.get" THEN {VolumeNotFound}
    ELSE IF fn = "compute_api.detach_volume"
        THEN {VolumeUnattached, InvalidVolume, InstanceInvalidState}
    ELSE {}

\* C2 (amended): when every failure raised in an attach or detach request is
\* one the handler catches around that call, the request ends with a facade
\* outcome; a failure it does not catch there leaves the handler as it is.
C2_HandledTranslated ==
    (pc = "done" /\ req.action \in {"attach", "detach"} /\ FailedCalls # {})
        => IF \A k \in FailedCalls :
                calls[k].raised \in HandledFailures(req.action, calls[k].fn)
             THEN outcome \in FacadeOutcomes
             ELSE /\ outcome = calls[Len(calls)].raised
                  /\ outcome \notin HandledFailures(req.action,
                                                    calls[Len(calls)].fn)

C2_Witness ==
    /\ pc = "done"
    /\ req.action = "detach"
    /\ Len(DetachCalls) = 2
    /\ calls[Len(calls)].raised = InvalidVolume
    /\ outcome = HTTPBadRequest

\* C3: an attach or detach request of a caller who holds the rule, whose
\* body has no well-formed action object, makes no backend call and ends
\* with BadRequest.
C3_MalformedBodyBadRequest ==
    /\ (req.action = "attach" /\ RuleAttach \in req.context
            /\ Malformed(req.body, "attach"))
          => (calls = <<>> /\ (pc = "done" => outcome = HTTPBadRequest))
    /\ (req.action = "detach" /\ RuleDetach \in req.context
            /\ Malformed(req.body, "detach"))
          => (calls = <<>> /\ (pc = "done" => outcome = HTTPBadRequest))

NonUuidAttach ==
    /\ req.action = "attach"
    /\ ~Malformed(req.body, "attach")
    /\ ~is_uuid_like(req.body.items.volume_id)

\* C4: an attach request whose volume_id is not UUID-like ends with
\* BadRequest before any backend call, whoever calls and whatever the
\* server id and the device are.
C4_NonUuidBadRequest ==
    NonUuidAttach => (pc = "done" /\ outcome = HTTPBadRequest /\ calls = <<>>)

C4_Witness ==
    /\ NonUuidAttach
    /\ RuleAttach \in req.context
    /\ "device" \in DOMAIN req.body.items
    /\ outcome = HTTPBadRequest

\* C5: in the scan of detach, a detach_volume call that answers
\* 'unattached' lets the scan go on with the next mappings in order and
\* nothing else does; the request ends with 202 iff a detach_volume call
\* returned, and with NotFound iff every matching mapping was tried and
\* answered 'unattached' (none matching included).
C5_FallThrough ==
    ScanStarted =>
        LET D == DetachCalls
            AllUnattached == \A k \in 1..Len(D) : D[k].raised = VolumeUnattached
        IN  /\ \A k \in 1..(Len(D) - 1) : D[k].raised = VolumeUnattached
            /\ pc = "detach_loop"
                 => (AllUnattached /\ Len(D) = Matches(bdms, volume_id, i - 1))
            /\ pc = "done"
                 => /\ outcome = Accepted
                        <=> (Len(D) > 0 /\ D[Len(D)].raised = NoExc)
                    /\ outcome = HTTPNotFound
                        <=> (AllUnattached
                             /\ Len(D) = Matches(bdms, volume_id, Len(bdms)))

C5_Witness ==
    /\ ScanStarted
    /\ pc = "done"
    /\ outcome = Accepted
    /\ Len(DetachCalls) = 2
    /\ DetachCalls[1].raised = VolumeUnattached

\* C6: in a detach request a detach_volume call that returns is the last
\* backend call of the request, which then ends with 202.
C6_FirstMatchWins ==
    req.action = "detach" =>
        \A k \in 1..Len(calls) :
            (IsDetachVolume(calls[k]) /\ calls[k].raised = NoExc)
                => (k = Len(calls) /\ pc = "done" /\ outcome = Accepted)

C6_Witness ==
    /\ req.action = "detach"
    /\ pc = "done"
    /\ outcome = Accepted
    /\ Len(DetachCalls) = 1
    /\ \E k \in (i + 1)..Len(bdms) : bdms[k].volume_id = volume_id

\* C7: detach calls detach_volume once per matching mapping it has reached
\* and never for another mapping; with no matching mapping (the empty list
\* included) it never calls it and the request ends with NotFound.
C7_OnlyMatchingMappings ==
    req.action = "detach" =>
        LET D == DetachCalls
            Reached == IF pc = "detach_loop" THEN i - 1
                       ELSE IF i <= Len(bdms) THEN i ELSE Len(bdms)
        IN  /\ Len(D) <= Matches(bdms, volume_id, Len(bdms))
            /\ ScanStarted => Len(D) = Matches(bdms, volume_id, Reached)
            /\ (ScanStarted /\ pc = "done"
                    /\ Matches(bdms, volume_id, Len(bdms)) = 0)
                 => (outcome = HTTPNotFound /\ Len(D) = 0)

C7_Witness ==
    /\ ScanStarted
    /\ pc = "done"
    /\ Len(bdms) = 2
    /\ Matches(bdms, volume_id, Len(bdms)) = 0
    /\ outcome = HTTPNotFound

\* va lists {id: volume_id} for the mappings of bs with a volume id, in order.
NonEmptyAt(bs) == {k \in 1..Len(bs) : bs[k].volume_id \notin {None, ""}}
FilteredView(va, bs) ==
    /\ Len(va) = Cardinality(NonEmptyAt(bs))
    /\ \A k \in NonEmptyAt(bs) :
        va[Cardinality({m \in NonEmptyAt(bs) : m <= k})]
            = [id |-> bs[k].volume_id]

\* C8: for an authorized caller show and detail set volumes_attached of
\* each server to the {id: volume_id} entries of the mappings of that server
\* with a non-empty volume id, in mapping order, duplicates kept.
C8_OrderPreservingFilter ==
    (pc = "done" /\ outcome = Returned /\ RuleExtend \in req.context) =>
        /\ req.action = "show" =>
            /\ Len(calls) = 1
            /\ calls[1].args = <<req.id>>
            /\ DOMAIN resp_obj.obj.server = {"id", volumes_attached_key}
            /\ resp_obj.obj.server.id = req.id
            /\ FilteredView(resp_obj.obj.server[volumes_attached_key],
                            calls[1].ret)
        /\ req.action = "detail" =>
            /\ Len(calls) = Len(req.resp_obj.obj.servers)
            /\ Len(resp_obj.obj.servers) = Len(req.resp_obj.obj.servers)
            /\ \A k \in 1..Len(calls) :
                LET server == resp_obj.obj.servers[k]
                IN  /\ DOMAIN server = {"id", volumes_attached_key}
                    /\ server.id = req.resp_obj.obj.servers[k].id
                    /\ calls[k].args = <<server.id>>
                    /\ FilteredView(server[volumes_attached_key], calls[k].ret)

C8_Witness ==
    /\ pc = "done"
    /\ outcome = Returned
    /\ req.action = "detail"
    /\ Len(calls) = 2
    /\ calls[1].ret = <<[volume_id |-> None], [volume_id |-> V2]>>
    /\ calls[2].ret = <<[volume_id |-> V1], [volume_id |-> V1]>>
    /\ Len(resp_obj.obj.servers[1][volumes_attached_key]) = 1
    /\ Len(resp_obj.obj.servers[2][volumes_attached_key]) = 2

\* C9: show and detail of a caller without the enrichment rule return
\* normally with the response as it came in, no template attached and no
\* get_instance_bdms call made.
C9_SoftAuthorizationNoOp ==
    (req.action \in {"show", "detail"} /\ RuleExtend \notin req.context) =>
        /\ pc = "done"
        /\ outcome = Returned
        /\ calls = <<>>
        /\ resp_obj = req.resp_obj
        /\ resp_obj.xml = None

C9_Witness ==
    /\ req.action = "detail"
    /\ req.context = {RuleAttach, RuleDetach}
    /\ Len(req.resp_obj.obj.servers) = 2
    /\ pc = "done"
    /\ resp_obj = req.resp_obj

\* The outcome the handlers give a backend failure they map.
MappedOutcome(e) ==
    CASE e = InstanceNotFound -> HTTPNotFound
      [] e = VolumeNotFound -> HTTPNotFound
      [] e = InstanceInvalidState -> HTTPConflict
      [] e = InvalidVolume -> HTTPBadRequest
      [] e = InvalidDevicePath -> HTTPBadRequest

\* C10: in attach a failure of the instance lookup or of attach_volume of
\* one of the five mapped kinds ends the request with the outcome of that
\* kind, and attach_volume is not called after a failed lookup; in detach a
\* detach_volume call that raises invalid volume or invalid state is the
\* last call and the request ends with BadRequest resp. Conflict.
C10_FailureMapping ==
    /\ req.action = "attach" =>
        \A k \in 1..Len(calls) :
            calls[k].raised \in {InstanceNotFound, VolumeNotFound,
                    InstanceInvalidState, InvalidVolume, InvalidDevicePath}
                => /\ k = Len(calls)
                   /\ pc = "done"
                   /\ outcome = MappedOutcome(calls[k].raised)
    /\ req.action = "detach" =>
        \A k \in 1..Len(calls) :
            (IsDetachVolume(calls[k])
                /\ calls[k].raised \in {InvalidVolume, InstanceInvalidState})
                => /\ k = Len(calls)
                   /\ pc = "done"
                   /\ outcome = MappedOutcome(calls[k].raised)

C10_Witness ==
    /\ req.action = "attach"
    /\ pc = "done"
    /\ Len(calls) = 2
    /\ calls[2].fn = "compute_api.attach_volume"
    /\ calls[2].raised = InvalidDevicePath
    /\ outcome = HTTPBadRequest

====
